---- MODULE Spec2Model ----
(***************************************************************************)
(* Model of src/supermarket.py: the sqlite store (inventory, stock_history,*)
(* sales, users), the implicit transactions of Python's sqlite3 module, and*)
(* the handlers of SupermarketApp that build a bill and check it out.      *)
(*                                                                         *)
(* Text entered by the user (barcode, quantity, customer) is a sequence of *)
(* one-character strings, so that strip(), lower() and int() are computed. *)
(* Prices are whole rupees (the seeded prices 30.00 and 40.00).            *)
(***************************************************************************)
EXTENDS Integers, Sequences, FiniteSets, TLC

(***************************************************************************)
(* Bounds of the model.                                                    *)
(***************************************************************************)
\* A behaviour commits at most MaxSales sales; once it has, the session's
\* handlers are not explored further.
MaxSales == 1

\* "+"/barcode entry raises a line's quantity only while it is below this.
MaxAddQty == 2

(***************************************************************************)
(* Program constants.                                                      *)
(***************************************************************************)
LOW_STOCK_THRESHOLD == 10

DEFAULT_TAX_PERCENT == 0

DEFAULT_USERNAME == "python"

DEFAULT_PASSWORD == "python"

DEFAULT_ROLE == "manager"

\* Application instances (processes), each with its own bill and connections.
Apps == {1, 2}

(***************************************************************************)
(* Text: str.strip(), str.lower(), int().                                  *)
(***************************************************************************)
LowerMap ==
    [c \in {"A", "B", "D", "E", "I", "K", "L", "M", "R", "X"} |->
        CASE c = "A" -> "a" [] c = "B" -> "b" [] c = "D" -> "d"
          [] c = "E" -> "e" [] c = "I" -> "i" [] c = "K" -> "k"
          [] c = "L" -> "l" [] c = "M" -> "m" [] c = "R" -> "r"
          [] c = "X" -> "x"]

LowerChar(c) == IF c \in DOMAIN LowerMap THEN LowerMap[c] ELSE c

\* str.lower()
Lower(s) == [i \in 1..Len(s) |-> LowerChar(s[i])]

RECURSIVE LStrip(_)
LStrip(s) == IF s # <<>> /\ Head(s) = " " THEN LStrip(Tail(s)) ELSE s

RECURSIVE RStrip(_)
RStrip(s) ==
    IF s # <<>> /\ s[Len(s)] = " " THEN RStrip(SubSeq(s, 1, Len(s) - 1)) ELSE s

\* str.strip()
Strip(s) == RStrip(LStrip(s))

Digits == {"0", "1", "2", "3", "4", "5", "6", "7", "8", "9"}

DigitVal(c) ==
    CASE c = "0" -> 0 [] c = "1" -> 1 [] c = "2" -> 2 [] c = "3" -> 3
      [] c = "4" -> 4 [] c = "5" -> 5 [] c = "6" -> 6 [] c = "7" -> 7
      [] c = "8" -> 8 [] c = "9" -> 9

RECURSIVE DigitsValue(_)
DigitsValue(s) ==
    IF s = <<>> THEN 0
    ELSE 10 * DigitsValue(SubSeq(s, 1, Len(s) - 1)) + DigitVal(s[Len(s)])

IsDigits(s) == s # <<>> /\ \A i \in 1..Len(s) : s[i] \in Digits

\* int(text): surrounding blanks ignored, an optional sign, decimal digits;
\* anything else raises ValueError (ok = FALSE).
ParseInt(text) ==
    LET s == Strip(text)
        signed == s # <<>> /\ Head(s) \in {"-", "+"}
        body == IF signed THEN Tail(s) ELSE s
    IN  IF IsDigits(body)
        THEN [ok |-> TRUE,
              val |-> IF signed /\ Head(s) = "-"
                      THEN 0 - DigitsValue(body) ELSE DigitsValue(body)]
        ELSE [ok |-> FALSE, val |-> 0]

(***************************************************************************)
(* The seeded catalog (the first two rows of seed_default_items).          *)
(***************************************************************************)
MILK500 == <<"M", "I", "L", "K", "5", "0", "0">>

BREAD01 == <<"B", "R", "E", "A", "D", "0", "1">>

Defaults ==
    << [barcode |-> MILK500, name |-> "Milk 500ml", price |-> 30, quantity |-> 20],
       [barcode |-> BREAD01, name |-> "Bread (400g)", price |-> 40, quantity |-> 20] >>

\* Rank of a product name under ORDER BY name (BINARY collation: "B" < "M").
NameRank(name) == IF name = "Bread (400g)" THEN 1 ELSE 2

(***************************************************************************)
(* SQL statements, as functions of a table.                                *)
(***************************************************************************)
NoRow == [id |-> 0]

\* SELECT ... FROM inventory WHERE barcode=? ; fetchone()
SelectByBarcode(inv, barcode) ==
    IF \E i \in 1..Len(inv) : inv[i].barcode = barcode
    THEN inv[CHOOSE i \in 1..Len(inv) : inv[i].barcode = barcode]
    ELSE NoRow

\* INSERT OR IGNORE INTO inventory: barcode is UNIQUE, id is AUTOINCREMENT.
InsertOrIgnore(inv, d) ==
    IF SelectByBarcode(inv, d.barcode) # NoRow THEN inv
    ELSE Append(inv, [id |-> Len(inv) + 1, barcode |-> d.barcode, name |-> d.name,
                      price |-> d.price, quantity |-> d.quantity])

\* Faulty variant: one row per item, overwritten in place once it exists.
InsertHistory_Replace(hist, item_id, qty) ==
    IF \E i \in 1..Len(hist) : hist[i].item_id = item_id
    THEN [i \in 1..Len(hist) |->
            IF hist[i].item_id = item_id THEN [hist[i] EXCEPT !.quantity = qty]
            ELSE hist[i]]
    ELSE Append(hist, [id |-> Len(hist) + 1, item_id |-> item_id, quantity |-> qty])

\* INSERT INTO stock_history (item_id, record_date, quantity)
InsertHistory(hist, item_id, qty) ==
    Append(hist, [id |-> Len(hist) + 1, item_id |-> item_id, quantity |-> qty])

\* Faulty variant: the UPDATE has no WHERE clause and deducts from every row.
UpdateQuantity_NoWhere(inv, qty, barcode) ==
    [i \in 1..Len(inv) |-> [inv[i] EXCEPT !.quantity = @ - qty]]

\* UPDATE inventory SET quantity = quantity - ? WHERE barcode=?
UpdateQuantity(inv, qty, barcode) ==
    [i \in 1..Len(inv) |->
        IF inv[i].barcode = barcode
        THEN [inv[i] EXCEPT !.quantity = @ - qty] ELSE inv[i]]

\* INSERT INTO sales (sale_date, items_json, total_amount, customer_name)
InsertSale(sl, items, total, customer) ==
    Append(sl, [id |-> Len(sl) + 1, items |-> items, total |-> total,
                customer |-> customer])

RECURSIVE InsertByName(_, _)
InsertByName(sorted, row) ==
    IF sorted = <<>> THEN <<row>>
    ELSE IF NameRank(row.name) < NameRank(Head(sorted).name)
         THEN <<row>> \o sorted
         ELSE <<Head(sorted)>> \o InsertByName(Tail(sorted), row)

RECURSIVE OrderByName(_)
\* SELECT * FROM inventory ORDER BY name
OrderByName(inv) ==
    IF inv = <<>> THEN <<>>
    ELSE InsertByName(OrderByName(SubSeq(inv, 1, Len(inv) - 1)), inv[Len(inv)])

RECURSIVE SeedFrom(_, _)
\* The loop of seed_default_items over defaults[k..]; db = [inventory, stock_history].
SeedFrom(k, db) ==
    IF k > Len(Defaults) THEN db
    ELSE LET inv == InsertOrIgnore(db.inventory, Defaults[k])
             row == SelectByBarcode(inv, Defaults[k].barcode)
             hist == IF row # NoRow
                     THEN InsertHistory(db.stock_history, row.id, Defaults[k].quantity)
                     ELSE db.stock_history
         IN  SeedFrom(k + 1, [inventory |-> inv, stock_history |-> hist])

seed_default_items(db) == SeedFrom(1, db)

(***************************************************************************)
(* State.                                                                  *)
(***************************************************************************)
VARIABLES
    inventory,      \* committed rows of table inventory, in id order
    stock_history,  \* committed rows of table stock_history, in id order
    sales,          \* committed rows of table sales, in id order
    users,          \* committed rows of table users
    tx,             \* tx[a]: the open write transaction of a's checkout connection
    pc,             \* pc[a]: where instance a is
    current_bill,   \* current_bill[a]: self.current_bill
    cache,          \* cache[a]: self.inventory, the snapshot of load_inventory_cache
    dialog,         \* dialog[a]: the open "Edit Quantity" window and the line it holds
    ci,             \* ci[a]: index of the line the running checkout loop is at
    last,           \* the step taken last: instance, handler, what it reported, its input
    sold,           \* sold[a]: sales instance a has committed (for MaxSales)
    before          \* before[a]: the committed tables when a's running checkout began

vars == <<inventory, stock_history, sales, users, tx, pc, current_bill, cache,
          dialog, ci, last, sold, before>>

store == <<inventory, stock_history, sales, users>>

NoTx == [open |-> FALSE]

NoDialog == [open |-> FALSE]

NoSnapshot == [taken |-> FALSE]

Snapshot ==
    [taken |-> TRUE, inventory |-> inventory, stock_history |-> stock_history,
     sales |-> sales]

NoArg == <<>>

Report(a, op, res, arg) == [app |-> a, op |-> op, res |-> res, arg |-> arg]

\* The tables as the connection of instance a reads them: its own uncommitted
\* writes inside its transaction, the committed rows otherwise.
ViewInventory(a) == IF tx[a].open THEN tx[a].inventory ELSE inventory

ViewHistory(a) == IF tx[a].open THEN tx[a].stock_history ELSE stock_history

ViewSales(a) == IF tx[a].open THEN tx[a].sales ELSE sales

\* sqlite allows one write transaction at a time (RESERVED lock).
WriteLockFree(a) == \A b \in Apps \ {a} : ~tx[b].open

\* Instance a is waiting for user input (and the model still explores it).
Idle(a) == pc[a] = "idle" /\ sold[a] < MaxSales

(***************************************************************************)
(* Start-up, login, logout, process exit.                                  *)
(***************************************************************************)
\* Faulty variant: the seed runs at every start, not only on an empty inventory.
init_db_AlwaysSeed(db) ==
    LET u == IF Cardinality(db.users) = 0
             THEN {[username |-> DEFAULT_USERNAME, password |-> DEFAULT_PASSWORD,
                    role |-> DEFAULT_ROLE]}
             ELSE db.users
        seeded == seed_default_items([inventory |-> db.inventory,
                                      stock_history |-> db.stock_history])
    IN  [inventory |-> seeded.inventory, stock_history |-> seeded.stock_history,
         sales |-> db.sales, users |-> u]

\* init_db(): CREATE TABLE IF NOT EXISTS ...; the default user if users is
\* empty; the seed if inventory is empty; commit.
init_db(db) ==
    LET u == IF Cardinality(db.users) = 0
             THEN {[username |-> DEFAULT_USERNAME, password |-> DEFAULT_PASSWORD,
                    role |-> DEFAULT_ROLE]}
             ELSE db.users
        seeded == IF Len(db.inventory) = 0
                  THEN seed_default_items([inventory |-> db.inventory,
                                           stock_history |-> db.stock_history])
                  ELSE [inventory |-> db.inventory,
                        stock_history |-> db.stock_history]
    IN  [inventory |-> seeded.inventory, stock_history |-> seeded.stock_history,
         sales |-> db.sales, users |-> u]

\* load_inventory_cache(): the rows read into self.inventory.
load_inventory_cache(inv) == OrderByName(inv)

\* SupermarketApp.__init__: a process starts, runs init_db and shows the login screen.
Start(a) ==
    /\ pc[a] = "off"
    /\ WriteLockFree(a)
    /\ LET db == init_db([inventory |-> inventory, stock_history |-> stock_history,
                          sales |-> sales, users |-> users])
       IN  /\ inventory' = db.inventory
           /\ stock_history' = db.stock_history
           /\ sales' = db.sales
           /\ users' = db.users
    /\ pc' = [pc EXCEPT ![a] = "login"]
    /\ current_bill' = [current_bill EXCEPT ![a] = <<>>]
    /\ last' = Report(a, "start", "ok", NoArg)
    /\ UNCHANGED <<sold, before, tx, cache, dialog, ci>>

\* handle_login: the entered pair is looked up in users; on success show_main_ui
\* builds the pages and loads the inventory cache.
Login(a, cred) ==
    /\ pc[a] = "login"
    /\ IF cred.username = "" \/ cred.password = ""
       THEN /\ last' = Report(a, "login", "empty", NoArg)
            /\ UNCHANGED <<pc, cache>>
       ELSE IF \E u \in users : u.username = cred.username /\ u.password = cred.password
            THEN /\ pc' = [pc EXCEPT ![a] = "idle"]
                 /\ cache' = [cache EXCEPT ![a] = load_inventory_cache(inventory)]
                 /\ last' = Report(a, "login", "ok", NoArg)
            ELSE /\ last' = Report(a, "login", "failed", NoArg)
                 /\ UNCHANGED <<pc, cache>>
    /\ UNCHANGED <<sold, before, store, tx, current_bill, dialog, ci>>

\* logout (confirmed): the bill is dropped and create_login_screen destroys every
\* child window of the root, the edit window included.
Logout(a) ==
    /\ Idle(a)
    /\ pc' = [pc EXCEPT ![a] = "login"]
    /\ current_bill' = [current_bill EXCEPT ![a] = <<>>]
    /\ dialog' = [dialog EXCEPT ![a] = NoDialog]
    /\ last' = Report(a, "logout", "ok", NoArg)
    /\ UNCHANGED <<sold, before, store, tx, cache, ci>>

\* The process stops (window closed, or killed) at any point: its memory is
\* gone and sqlite rolls back the transaction its connection had open.
Exit(a) ==
    /\ pc[a] # "off"
    /\ pc' = [pc EXCEPT ![a] = "off"]
    /\ tx' = [tx EXCEPT ![a] = NoTx]
    /\ current_bill' = [current_bill EXCEPT ![a] = <<>>]
    /\ cache' = [cache EXCEPT ![a] = <<>>]
    /\ dialog' = [dialog EXCEPT ![a] = NoDialog]
    /\ ci' = [ci EXCEPT ![a] = 0]
    /\ last' = Report(a, "exit", "ok", NoArg)
    /\ before' = [before EXCEPT ![a] = NoSnapshot]
    /\ UNCHANGED <<sold, store>>

\* populate_low_stock_warning: the rows of self.inventory, in its order, whose
\* quantity is below LOW_STOCK_THRESHOLD (the dashboard's low-stock list).
populate_low_stock_warning(inv) ==
    LET IsLow(it) == it.quantity < LOW_STOCK_THRESHOLD
    IN  SelectSeq(inv, IsLow)

\* "Refresh Inventory" / "Refresh": load_inventory_cache.
Refresh(a) ==
    /\ Idle(a)
    /\ cache' = [cache EXCEPT ![a] = load_inventory_cache(inventory)]
    /\ last' = Report(a, "refresh", "ok", NoArg)
    /\ UNCHANGED <<sold, before, store, tx, pc, current_bill, dialog, ci>>

(***************************************************************************)
(* The bill.                                                               *)
(***************************************************************************)
\* next((i for i in self.inventory if i['barcode'].strip().lower() ==
\*       barcode.strip().lower()), None): index into the cache, 0 for None.
FindItem(inv, code) ==
    LET hits == {i \in 1..Len(inv) :
                    Lower(Strip(inv[i].barcode)) = Lower(Strip(code))}
    IN  IF hits = {} THEN 0 ELSE CHOOSE i \in hits : \A j \in hits : i <= j

\* Faulty variant: the line's barcode is lowered before the comparison.
LineOf_Lowered(bill, barcode) ==
    LET hits == {i \in 1..Len(bill) : Lower(bill[i].barcode) = barcode}
    IN  IF hits = {} THEN 0 ELSE CHOOSE i \in hits : \A j \in hits : i <= j

\* Index of the bill line with b['barcode'] == barcode, 0 if there is none.
LineOf(bill, barcode) ==
    LET hits == {i \in 1..Len(bill) : bill[i].barcode = barcode}
    IN  IF hits = {} THEN 0 ELSE CHOOSE i \in hits : \A j \in hits : i <= j

\* Faulty variant: a new line for every scan, no merge.
AddOrIncrement_AlwaysAppend(bill, item) ==
    Append(bill, [barcode |-> item.barcode, name |-> item.name,
                  price |-> item.price, quantity |-> 1])

\* Faulty variant: a merge also takes over the price the catalog shows now.
AddOrIncrement_Repin(bill, item) ==
    IF LineOf(bill, item.barcode) # 0
    THEN [bill EXCEPT ![LineOf(bill, item.barcode)] =
             [@ EXCEPT !.quantity = @ + 1, !.price = item.price]]
    ELSE Append(bill, [barcode |-> item.barcode, name |-> item.name,
                       price |-> item.price, quantity |-> 1])

\* The add-or-increment loop of add_item_by_barcode.
AddOrIncrement(bill, item) ==
    IF LineOf(bill, item.barcode) # 0
    THEN [bill EXCEPT ![LineOf(bill, item.barcode)].quantity = @ + 1]
    ELSE Append(bill, [barcode |-> item.barcode, name |-> item.name,
                       price |-> item.price, quantity |-> 1])

\* Faulty variant: "< 0" for "<= 0".
OutOfStock_Negative(item) == item.quantity < 0

RECURSIVE DisplayLoop(_, _)
\* for it in self.current_bill: line_total = price * quantity; subtotal += line_total
DisplayLoop(bill, subtotal) ==
    IF bill = <<>> THEN subtotal
    ELSE DisplayLoop(Tail(bill), subtotal + Head(bill).price * Head(bill).quantity)

\* update_bill_display: the subtotal, tax and total it computes from the bill
\* and shows in the three labels.
update_bill_display(bill) ==
    LET subtotal == DisplayLoop(bill, 0)
        tax == subtotal * DEFAULT_TAX_PERCENT
    IN  [subtotal |-> subtotal, tax |-> tax, total |-> subtotal + tax]

\* if item['quantity'] <= 0
OutOfStock(item) == item.quantity <= 0

\* add_item_by_barcode(barcode)
AddItem(a, code) ==
    /\ Idle(a)
    /\ LET k == FindItem(cache[a], code)
       IN  IF k = 0
           THEN /\ last' = Report(a, "add", "not found", code)
                /\ UNCHANGED current_bill
           ELSE IF OutOfStock(cache[a][k])
                THEN /\ last' = Report(a, "add", "out of stock", code)
                     /\ UNCHANGED current_bill
                ELSE /\ LineOf(current_bill[a], cache[a][k].barcode) # 0
                            => current_bill[a][LineOf(current_bill[a],
                                   cache[a][k].barcode)].quantity < MaxAddQty
                     /\ current_bill' = [current_bill EXCEPT
                                           ![a] = AddOrIncrement(@, cache[a][k])]
                     /\ last' = Report(a, "add", "ok", code)
    /\ UNCHANGED <<sold, before, store, tx, pc, cache, dialog, ci>>

\* The edit window holds the dict of one line; once that dict has left the bill
\* the window still holds it, but it is no line of the bill any more.
Detach(d, gone) ==
    IF d.open /\ d.attached /\ d.barcode \in gone
    THEN [d EXCEPT !.attached = FALSE] ELSE d

BarcodesOf(bill) == {bill[i].barcode : i \in 1..Len(bill)}

RemoveAt(bill, idx) == SubSeq(bill, 1, idx - 1) \o SubSeq(bill, idx + 1, Len(bill))

\* remove_selected_bill_item: idx is the selected row of the bill tree, 0 when
\* nothing is selected.
RemoveLine(a, idx) ==
    /\ Idle(a)
    /\ idx \in 0..Len(current_bill[a])
    /\ IF idx = 0
       THEN /\ last' = Report(a, "remove", "select", NoArg)
            /\ UNCHANGED <<current_bill, dialog>>
       ELSE /\ current_bill' = [current_bill EXCEPT ![a] = RemoveAt(@, idx)]
            /\ dialog' = [dialog EXCEPT
                            ![a] = Detach(@, {current_bill[a][idx].barcode})]
            /\ last' = Report(a, "remove", "removed", current_bill[a][idx].barcode)
    /\ UNCHANGED <<sold, before, store, tx, pc, cache, ci>>

\* clear_bill (confirmed); nothing happens on an empty bill.
ClearBill(a) ==
    /\ Idle(a)
    /\ IF current_bill[a] = <<>>
       THEN /\ last' = Report(a, "clear", "empty", NoArg)
            /\ UNCHANGED <<current_bill, dialog>>
       ELSE /\ current_bill' = [current_bill EXCEPT ![a] = <<>>]
            /\ dialog' = [dialog EXCEPT ![a] = Detach(@, BarcodesOf(current_bill[a]))]
            /\ last' = Report(a, "clear", "cleared", NoArg)
    /\ UNCHANGED <<sold, before, store, tx, pc, cache, ci>>

\* edit_selected_qty: opens the (non-modal) window on the selected line. One
\* window is open at a time in the model.
EditSelectedQty(a, idx) ==
    /\ Idle(a)
    /\ ~dialog[a].open
    /\ idx \in 0..Len(current_bill[a])
    /\ IF idx = 0
       THEN /\ last' = Report(a, "edit", "select", NoArg)
            /\ UNCHANGED dialog
       ELSE /\ dialog' = [dialog EXCEPT
                            ![a] = [open |-> TRUE, attached |-> TRUE,
                                    barcode |-> current_bill[a][idx].barcode]]
            /\ last' = Report(a, "edit", "opened", current_bill[a][idx].barcode)
    /\ UNCHANGED <<sold, before, store, tx, pc, current_bill, cache, ci>>

\* The user closes the edit window without saving.
CloseDialog(a) ==
    /\ Idle(a)
    /\ dialog[a].open
    /\ dialog' = [dialog EXCEPT ![a] = NoDialog]
    /\ last' = Report(a, "close", "ok", NoArg)
    /\ UNCHANGED <<sold, before, store, tx, pc, current_bill, cache, ci>>

\* row['quantity'] if row else 0
Available(inv, barcode) ==
    IF SelectByBarcode(inv, barcode) = NoRow THEN 0
    ELSE SelectByBarcode(inv, barcode).quantity

\* Faulty variant: the stock is taken from the instance's cached inventory.
LiveStock_FromCache(a, barcode) == Available(cache[a], barcode)

\* save_qty's "check stock available in DB": a fresh connection reads the
\* committed row of the line's barcode.
LiveStock(a, barcode) == Available(inventory, barcode)

\* Faulty variant: the window holds a barcode and looks the line up at Save.
SetLineQuantity_ByBarcode(bill, d, nq) ==
    IF LineOf(bill, d.barcode) # 0
    THEN [bill EXCEPT ![LineOf(bill, d.barcode)].quantity = nq]
    ELSE bill

\* item['quantity'] = nq, on the dict the window holds.
SetLineQuantity(bill, d, nq) ==
    IF d.attached /\ LineOf(bill, d.barcode) # 0
    THEN [bill EXCEPT ![LineOf(bill, d.barcode)].quantity = nq]
    ELSE bill

\* The report of a Save: also the line the window held when Save was pressed.
SaveReport(a, res, text) ==
    [app |-> a, op |-> "save", res |-> res, arg |-> text, line |-> dialog[a]]

\* save_qty: the Save button of the edit window, with the text of its entry.
SaveQty(a, text) ==
    /\ Idle(a)
    /\ dialog[a].open
    /\ LET r == ParseInt(text)
           avail == LiveStock(a, dialog[a].barcode)
       IN  IF ~r.ok \/ r.val <= 0
           THEN /\ last' = SaveReport(a, "invalid", text)
                /\ UNCHANGED <<current_bill, dialog>>
           ELSE IF r.val > avail
                THEN /\ last' = SaveReport(a, "not enough stock", text)
                     /\ UNCHANGED <<current_bill, dialog>>
                ELSE /\ current_bill' = [current_bill EXCEPT
                                           ![a] = SetLineQuantity(@, dialog[a], r.val)]
                     /\ dialog' = [dialog EXCEPT ![a] = NoDialog]
                     /\ last' = SaveReport(a, "ok", text)
    /\ UNCHANGED <<sold, before, store, tx, pc, cache, ci>>


(***************************************************************************)
(* Checkout: process_checkout, one step per statement group.               *)
(*   validate : the SELECT of the verify loop for line ci                  *)
(*   update   : the UPDATE of the deduct loop for line ci                  *)
(*   history  : the SELECT and the INSERT INTO stock_history for line ci   *)
(*   ledger   : the INSERT INTO sales                                      *)
(*   commit   : conn.commit()                                              *)
(*   post     : everything after the commit                                *)
(* The handler runs on the UI thread: no other handler of the same instance*)
(* runs while pc is not "idle". The sqlite3 module opens the transaction   *)
(* implicitly before the first UPDATE; the SELECTs of the verify loop run  *)
(* outside any transaction.                                                *)
(***************************************************************************)
InTransaction == {"update", "history", "ledger", "commit"}

InCheckout == {"validate"} \cup InTransaction

WalkIn == <<"W", "a", "l", "k", "-", "i", "n">>

RECURSIVE Subtotal_PriceOnly(_)
\* Faulty variant: the quantity of the line is left out of the sum.
Subtotal_PriceOnly(bill) ==
    IF bill = <<>> THEN 0
    ELSE Head(bill).price + Subtotal_PriceOnly(Tail(bill))

RECURSIVE Subtotal(_)
\* sum(it['price'] * it['quantity'] for it in self.current_bill)
Subtotal(bill) ==
    IF bill = <<>> THEN 0
    ELSE Head(bill).price * Head(bill).quantity + Subtotal(Tail(bill))

Tax(bill) == Subtotal(bill) * DEFAULT_TAX_PERCENT

Total(bill) == Subtotal(bill) + Tax(bill)

\* Faulty variant: the text is taken as typed, without strip().
CustomerLabel_Unstripped(text) == IF text = <<>> THEN WalkIn ELSE text

\* self.customer_entry.get().strip() or "Walk-in"
CustomerLabel(text) == IF Strip(text) = <<>> THEN WalkIn ELSE Strip(text)

\* The transaction of instance a, opened (BEGIN) if it is not open yet.
Begun(a) ==
    IF tx[a].open THEN tx[a]
    ELSE [open |-> TRUE, inventory |-> inventory,
          stock_history |-> stock_history, sales |-> sales]

\* Faulty variant: no test for an empty bill; both loops run over nothing and
\* the handler goes on to "save the sale".
BeginCheckout_NoEmptyTest(a) ==
    /\ Idle(a)
    /\ IF current_bill[a] = <<>>
       THEN /\ pc' = [pc EXCEPT ![a] = "ledger"]
            /\ ci' = [ci EXCEPT ![a] = 0]
       ELSE /\ pc' = [pc EXCEPT ![a] = "validate"]
            /\ ci' = [ci EXCEPT ![a] = 1]
    /\ before' = [before EXCEPT ![a] = Snapshot]
    /\ last' = Report(a, "checkout", "begin", NoArg)
    /\ UNCHANGED <<sold, store, tx, current_bill, cache, dialog>>

\* process_checkout up to the verify loop: an empty bill only shows a message.
BeginCheckout(a) ==
    /\ Idle(a)
    /\ IF current_bill[a] = <<>>
       THEN /\ last' = Report(a, "checkout", "empty", NoArg)
            /\ UNCHANGED <<pc, ci, before>>
       ELSE /\ pc' = [pc EXCEPT ![a] = "validate"]
            /\ ci' = [ci EXCEPT ![a] = 1]
            /\ before' = [before EXCEPT ![a] = Snapshot]
            /\ last' = Report(a, "checkout", "begin", NoArg)
    /\ UNCHANGED <<sold, store, tx, current_bill, cache, dialog>>

\* Faulty variant: only a missing row is refused.
StockShort_RowOnly(row, b) == row = NoRow

\* Faulty variant: one more than the stock is let through.
StockShort_OffByOne(row, b) == row = NoRow \/ row.quantity + 1 < b.quantity

\* if not row or row['quantity'] < b['quantity']
StockShort(row, b) == row = NoRow \/ row.quantity < b.quantity

\* messagebox.showerror("Stock error", f"Not enough stock for {b['name']}"):
\* what the message tells about the line.
StockErrorMessage(b) == [name |-> b.name]

\* One iteration of the verify loop.
ValidateLine(a) ==
    /\ pc[a] = "validate"
    /\ LET b == current_bill[a][ci[a]]
           row == SelectByBarcode(ViewInventory(a), b.barcode)
       IN  IF StockShort(row, b)
           THEN /\ pc' = [pc EXCEPT ![a] = "idle"]
                /\ ci' = [ci EXCEPT ![a] = 0]
                /\ before' = [before EXCEPT ![a] = NoSnapshot]
                /\ last' = Report(a, "checkout", "stock error", StockErrorMessage(b))
           ELSE /\ IF ci[a] = Len(current_bill[a])
                   THEN /\ pc' = [pc EXCEPT ![a] = "update"]
                        /\ ci' = [ci EXCEPT ![a] = 1]
                   ELSE /\ ci' = [ci EXCEPT ![a] = @ + 1]
                        /\ UNCHANGED pc
                /\ last' = Report(a, "checkout", "validated", NoArg)
                /\ UNCHANGED before
    /\ UNCHANGED <<sold, store, tx, current_bill, cache, dialog>>

\* Faulty variant: the connection is in autocommit mode, so the UPDATE is
\* committed as soon as it has run.
UpdateLine_Autocommit(a) ==
    /\ pc[a] = "update"
    /\ WriteLockFree(a)
    /\ LET b == current_bill[a][ci[a]]
       IN  /\ inventory' = UpdateQuantity(inventory, b.quantity, b.barcode)
           /\ tx' = [tx EXCEPT ![a] =
                       [Begun(a) EXCEPT !.inventory =
                           UpdateQuantity(@, b.quantity, b.barcode)]]
    /\ pc' = [pc EXCEPT ![a] = "history"]
    /\ last' = Report(a, "checkout", "updated", NoArg)
    /\ UNCHANGED <<sold, before, stock_history, sales, users, current_bill, cache,
                   dialog, ci>>

\* The UPDATE of the deduct loop; it needs sqlite's write lock.
UpdateLine(a) ==
    /\ pc[a] = "update"
    /\ WriteLockFree(a)
    /\ LET b == current_bill[a][ci[a]]
       IN  tx' = [tx EXCEPT ![a] =
                    [Begun(a) EXCEPT !.inventory =
                        UpdateQuantity(@, b.quantity, b.barcode)]]
    /\ pc' = [pc EXCEPT ![a] = "history"]
    /\ last' = Report(a, "checkout", "updated", NoArg)
    /\ UNCHANGED <<sold, before, store, current_bill, cache, dialog, ci>>

\* Faulty variant: the quantity recorded is the quantity sold, not what remains.
RecordRemaining_Sold(t, b) ==
    LET rr == SelectByBarcode(t.inventory, b.barcode)
    IN  IF rr # NoRow
        THEN [t EXCEPT !.stock_history = InsertHistory(@, rr.id, b.quantity)]
        ELSE t

\* Faulty variant: the quantity recorded is the one before the deduction.
RecordRemaining_Stale(t, b) ==
    LET rr == SelectByBarcode(t.inventory, b.barcode)
    IN  IF rr # NoRow
        THEN [t EXCEPT !.stock_history =
                 InsertHistory(@, rr.id, rr.quantity + b.quantity)]
        ELSE t

\* rr = SELECT id, quantity ...; if rr: INSERT INTO stock_history (remaining).
RecordRemaining(t, b) ==
    LET rr == SelectByBarcode(t.inventory, b.barcode)
    IN  IF rr # NoRow
        THEN [t EXCEPT !.stock_history = InsertHistory(@, rr.id, rr.quantity)]
        ELSE t

HistoryLine(a) ==
    /\ pc[a] = "history"
    /\ tx' = [tx EXCEPT ![a] = RecordRemaining(@, current_bill[a][ci[a]])]
    /\ IF ci[a] = Len(current_bill[a])
       THEN /\ pc' = [pc EXCEPT ![a] = "ledger"]
            /\ ci' = [ci EXCEPT ![a] = 0]
       ELSE /\ pc' = [pc EXCEPT ![a] = "update"]
            /\ ci' = [ci EXCEPT ![a] = @ + 1]
    /\ last' = Report(a, "checkout", "recorded", NoArg)
    /\ UNCHANGED <<sold, before, store, current_bill, cache, dialog>>

\* "save the sale": totals, customer, INSERT INTO sales with json.dumps of the bill.
Ledger(a, customerText) ==
    /\ pc[a] = "ledger"
    /\ tx' = [tx EXCEPT ![a] =
                [@ EXCEPT !.sales = InsertSale(@, current_bill[a],
                                               Total(current_bill[a]),
                                               CustomerLabel(customerText))]]
    /\ pc' = [pc EXCEPT ![a] = "commit"]
    /\ last' = Report(a, "checkout", "inserted", customerText)
    /\ UNCHANGED <<sold, before, store, current_bill, cache, dialog, ci>>

\* Faulty variant: the commit runs before the sale is inserted, so the sales
\* row is never committed.
Commit_BeforeSale(a) ==
    /\ pc[a] = "commit"
    /\ inventory' = tx[a].inventory
    /\ stock_history' = tx[a].stock_history
    /\ tx' = [tx EXCEPT ![a] = NoTx]
    /\ pc' = [pc EXCEPT ![a] = "post"]
    /\ sold' = [sold EXCEPT ![a] = @ + 1]
    /\ before' = [before EXCEPT ![a] = NoSnapshot]
    /\ last' = Report(a, "checkout", "committed", NoArg)
    /\ UNCHANGED <<sales, users, current_bill, cache, dialog, ci>>

\* conn.commit(): the transaction's rows become the committed rows.
Commit(a) ==
    /\ pc[a] = "commit"
    /\ inventory' = tx[a].inventory
    /\ stock_history' = tx[a].stock_history
    /\ sales' = tx[a].sales
    /\ tx' = [tx EXCEPT ![a] = NoTx]
    /\ pc' = [pc EXCEPT ![a] = "post"]
    /\ sold' = [sold EXCEPT ![a] = @ + 1]
    /\ before' = [before EXCEPT ![a] = NoSnapshot]
    /\ last' = Report(a, "checkout", "committed", NoArg)
    /\ UNCHANGED <<users, current_bill, cache, dialog, ci>>

RECURSIVE LowItems_Inclusive(_, _)
\* Faulty variant: "<=" for "<" in the comparison with LOW_STOCK_THRESHOLD.
LowItems_Inclusive(bill, inv) ==
    IF bill = <<>> THEN <<>>
    ELSE LET row == SelectByBarcode(inv, Head(bill).barcode)
         IN  (IF row # NoRow /\ row.quantity <= LOW_STOCK_THRESHOLD
              THEN << [name |-> row.name, barcode |-> row.barcode,
                       quantity |-> row.quantity] >>
              ELSE <<>>) \o LowItems_Inclusive(Tail(bill), inv)

RECURSIVE LowItems(_, _)
\* low_items: for each bill line in bill order, the row re-read from the store,
\* kept if its quantity is below LOW_STOCK_THRESHOLD.
LowItems(bill, inv) ==
    IF bill = <<>> THEN <<>>
    ELSE LET row == SelectByBarcode(inv, Head(bill).barcode)
         IN  (IF row # NoRow /\ row.quantity < LOW_STOCK_THRESHOLD
              THEN << [name |-> row.name, barcode |-> row.barcode,
                       quantity |-> row.quantity] >>
              ELSE <<>>) \o LowItems(Tail(bill), inv)

\* Faulty variant: the loop over low_items is left at the first mail that
\* fails.
SendAll_StopAtFailure(low_items, mail) ==
    LET failed == {i \in 1..Len(low_items) : ~mail[i]}
        n == IF failed = {} THEN Len(low_items)
             ELSE CHOOSE i \in failed : \A j \in failed : i <= j
    IN  [i \in 1..n |-> [barcode |-> low_items[i].barcode, success |-> mail[i]]]

\* for n,b,q in low_items: success, resp = send_low_stock_email(n, b, q).
\* send_low_stock_email catches every exception and returns (False, message);
\* mail[i] is whether the i-th mail gets through. The result is the list of
\* the mails attempted.
SendAll(low_items, mail) ==
    [i \in 1..Len(low_items) |->
        [barcode |-> low_items[i].barcode, success |-> mail[i]]]

\* Faulty variant: the handler returns when the file dialog is cancelled, before
\* the mails and before the bill is cleared.
FinishCheckout_ReturnOnCancel(a, receipt, mail) ==
    /\ pc[a] = "post"
    /\ DOMAIN mail = 1..Len(LowItems(current_bill[a], inventory))
    /\ cache' = [cache EXCEPT ![a] = load_inventory_cache(inventory)]
    /\ IF receipt = "cancelled"
       THEN UNCHANGED <<current_bill, dialog>>
       ELSE /\ current_bill' = [current_bill EXCEPT ![a] = <<>>]
            /\ dialog' = [dialog EXCEPT
                            ![a] = Detach(@, BarcodesOf(current_bill[a]))]
    /\ pc' = [pc EXCEPT ![a] = "idle"]
    /\ last' = [app |-> a, op |-> "checkout", res |-> "done",
                arg |-> LowItems(current_bill[a], inventory),
                receipt |-> receipt,
                mails |-> IF receipt = "cancelled" THEN <<>>
                          ELSE SendAll(LowItems(current_bill[a], inventory), mail)]
    /\ UNCHANGED <<sold, before, store, tx, ci>>

\* Faulty variant: the cache is not reloaded after the commit.
FinishCheckout_NoReload(a, receipt, mail) ==
    /\ pc[a] = "post"
    /\ DOMAIN mail = 1..Len(LowItems(current_bill[a], inventory))
    /\ current_bill' = [current_bill EXCEPT ![a] = <<>>]
    /\ dialog' = [dialog EXCEPT ![a] = Detach(@, BarcodesOf(current_bill[a]))]
    /\ pc' = [pc EXCEPT ![a] = "idle"]
    /\ last' = [app |-> a, op |-> "checkout", res |-> "done",
                arg |-> LowItems(current_bill[a], inventory),
                receipt |-> receipt,
                mails |-> SendAll(LowItems(current_bill[a], inventory), mail)]
    /\ UNCHANGED <<sold, before, store, tx, ci, cache>>

\* After the commit: reload the cache, collect the low-stock items, save the
\* receipt (generate_neat_pdf may fail, returning (False, message), or the file
\* dialog may be cancelled), mail and show the alerts, clear the bill.
FinishCheckout(a, receipt, mail) ==
    /\ pc[a] = "post"
    /\ DOMAIN mail = 1..Len(LowItems(current_bill[a], inventory))
    /\ cache' = [cache EXCEPT ![a] = load_inventory_cache(inventory)]
    /\ current_bill' = [current_bill EXCEPT ![a] = <<>>]
    /\ dialog' = [dialog EXCEPT ![a] = Detach(@, BarcodesOf(current_bill[a]))]
    /\ pc' = [pc EXCEPT ![a] = "idle"]
    /\ last' = [app |-> a, op |-> "checkout", res |-> "done",
                arg |-> LowItems(current_bill[a], inventory),
                receipt |-> receipt,
                mails |-> SendAll(LowItems(current_bill[a], inventory), mail)]
    /\ UNCHANGED <<sold, before, store, tx, ci>>

\* A statement of the checkout raises (sqlite3.Error): the handler is left by
\* the exception, nothing was committed and the open transaction is rolled
\* back when the connection goes away. The bill is not touched.
StoreFailure(a) ==
    /\ pc[a] \in InCheckout
    /\ tx' = [tx EXCEPT ![a] = NoTx]
    /\ pc' = [pc EXCEPT ![a] = "idle"]
    /\ ci' = [ci EXCEPT ![a] = 0]
    /\ before' = [before EXCEPT ![a] = NoSnapshot]
    /\ last' = Report(a, "checkout", "failed", <<pc[a]>>)
    /\ UNCHANGED <<sold, store, current_bill, cache, dialog>>

\* The price column of a product is edited in the store file by an administrator
\* (the program itself has no handler that writes inventory.price). The writer
\* needs sqlite's write lock. One edit per product: the seeded price is replaced.
NewPrices == {35}

PriceChange(barcode, price) ==
    /\ \A a \in Apps : ~tx[a].open
    /\ \E i \in 1..Len(inventory) :
          /\ inventory[i].barcode = barcode
          /\ inventory[i].price \notin NewPrices
          /\ inventory' = [inventory EXCEPT ![i].price = price]
    /\ last' = Report(0, "price", "changed", barcode)
    /\ UNCHANGED <<stock_history, sales, users, tx, pc, current_bill, cache, dialog,
                   ci, sold, before>>

(***************************************************************************)
(* Initial states. The store is the file supermarket.db, which outlives the*)
(* process: a behaviour starts either with no file, or with the file an    *)
(* earlier run left behind. LeftBehind is the store after init_db and two  *)
(* committed checkouts of that run (19 x MILK500, then 20 x BREAD01), built*)
(* with the statements of process_checkout.                                *)
(***************************************************************************)
EmptyStore == [inventory |-> <<>>, stock_history |-> <<>>, sales |-> <<>>, users |-> {}]

RECURSIVE DeductAll(_, _)
\* The deduct loop of process_checkout over the lines of bill.
DeductAll(t, bill) ==
    IF bill = <<>> THEN t
    ELSE DeductAll(RecordRemaining(
                      [t EXCEPT !.inventory =
                          UpdateQuantity(@, Head(bill).quantity, Head(bill).barcode)],
                      Head(bill)),
                   Tail(bill))

\* A whole committed checkout of bill on store db.
Sold(db, bill, customerText) ==
    [DeductAll(db, bill) EXCEPT
        !.sales = InsertSale(@, bill, Total(bill), CustomerLabel(customerText))]

LineFor(d, qty) ==
    [barcode |-> d.barcode, name |-> d.name, price |-> d.price, quantity |-> qty]

LeftBehind ==
    Sold(Sold(init_db(EmptyStore), <<LineFor(Defaults[1], 19)>>, <<>>),
         <<LineFor(Defaults[2], 20)>>, <<>>)

InitialStores == {EmptyStore, LeftBehind}

Init ==
    /\ \E db \in InitialStores :
          /\ inventory = db.inventory
          /\ stock_history = db.stock_history
          /\ sales = db.sales
          /\ users = db.users
    /\ tx = [a \in Apps |-> NoTx]
    /\ pc = [a \in Apps |-> "off"]
    /\ current_bill = [a \in Apps |-> <<>>]
    /\ cache = [a \in Apps |-> <<>>]
    /\ dialog = [a \in Apps |-> NoDialog]
    /\ ci = [a \in Apps |-> 0]
    /\ last = Report(0, "none", "none", NoArg)
    /\ sold = [a \in Apps |-> 0]
    /\ before = [a \in Apps |-> NoSnapshot]

(***************************************************************************)
(* Inputs and specifications.                                              *)
(***************************************************************************)
ScanInputs ==
    { MILK500, BREAD01, <<" ", "m", "i", "l", "k", "5", "0", "0", " ">>, <<"X">> }

QtyTexts ==
    { <<"x">>, <<"0">>, <<"-", "1">>, <<" ", "2">>, <<"1", "9">>, <<"2", "1">> }

CustomerTexts == { <<>>, <<" ">>, <<" ", "A", " ">> }

Credentials ==
    { [username |-> "python", password |-> "python"],
      [username |-> "python", password |-> "x"],
      [username |-> "", password |-> ""] }

ReceiptOutcomes == {"saved", "failed", "cancelled"}

\* Which of the mails get through, for every number of low-stock items.
MailOutcomes == UNION {[1..n -> BOOLEAN] : n \in 0..Len(Defaults)}

AllSent == {[i \in 1..n |-> TRUE] : n \in 0..Len(Defaults)}

Handlers(a) ==
    \/ Start(a)
    \/ \E cred \in Credentials : Login(a, cred)
    \/ Logout(a)
    \/ Exit(a)
    \/ Refresh(a)
    \/ \E code \in ScanInputs : AddItem(a, code)
    \/ \E idx \in 0..Len(Defaults) : RemoveLine(a, idx)
    \/ ClearBill(a)
    \/ \E idx \in 0..Len(Defaults) : EditSelectedQty(a, idx)
    \/ CloseDialog(a)
    \/ \E text \in QtyTexts : SaveQty(a, text)
    \/ BeginCheckout(a)
    \/ ValidateLine(a)
    \/ UpdateLine(a)
    \/ HistoryLine(a)
    \/ \E text \in CustomerTexts : Ledger(a, text)
    \/ Commit(a)
    \/ \E receipt \in ReceiptOutcomes, mail \in MailOutcomes :
          FinishCheckout(a, receipt, mail)
    \/ StoreFailure(a)

\* One application instance: the single session the program is designed for.
Next == Handlers(1)

Spec == Init /\ [][Next]_vars

\* Two application instances on the same store file, each with its own bill
\* and its own connections, explored with fewer inputs each.
ConcScanInputs == { MILK500 }

ConcQtyTexts == { <<"x">>, <<"0">>, <<"1", "9">>, <<"2", "1">> }

ConcHandlers(a) ==
    \/ Start(a)
    \/ Login(a, [username |-> DEFAULT_USERNAME, password |-> DEFAULT_PASSWORD])
    \/ Refresh(a)
    \/ \E code \in ConcScanInputs : AddItem(a, code)
    \/ EditSelectedQty(a, 1)
    \/ \E text \in ConcQtyTexts : SaveQty(a, text)
    \/ BeginCheckout(a)
    \/ ValidateLine(a)
    \/ UpdateLine(a)
    \/ HistoryLine(a)
    \/ Ledger(a, <<>>)
    \/ Commit(a)
    \/ \E mail \in AllSent : FinishCheckout(a, "saved", mail)
    \/ StoreFailure(a)

NextConc == \E a \in Apps : ConcHandlers(a)

SpecConc == Init /\ [][NextConc]_vars

\* One instance, and an administrator who edits the price of MILK500 in the
\* store file while the session runs.
NextPrice ==
    \/ ConcHandlers(1)
    \/ \E price \in NewPrices : PriceChange(MILK500, price)

SpecPrice == Init /\ [][NextPrice]_vars

\* One instance that sells both products in quantities that leave the stock
\* at, and below, LOW_STOCK_THRESHOLD (20 - 10 and 20 - 19).
LowScanInputs == { MILK500, BREAD01 }

LowQtyTexts == { <<"1", "0">>, <<"1", "9">> }

LowHandlers(a) ==
    \/ Start(a)
    \/ Login(a, [username |-> DEFAULT_USERNAME, password |-> DEFAULT_PASSWORD])
    \/ \E code \in LowScanInputs : AddItem(a, code)
    \/ \E idx \in 1..Len(Defaults) : EditSelectedQty(a, idx)
    \/ \E text \in LowQtyTexts : SaveQty(a, text)
    \/ BeginCheckout(a)
    \/ ValidateLine(a)
    \/ UpdateLine(a)
    \/ HistoryLine(a)
    \/ Ledger(a, <<>>)
    \/ Commit(a)
    \/ \E mail \in AllSent : FinishCheckout(a, "saved", mail)

NextLow == LowHandlers(1)

SpecLow == Init /\ [][NextLow]_vars


(***************************************************************************)
(* Properties.                                                             *)
(***************************************************************************)
RECURSIVE QtyOnBill(_, _)
\* Total quantity the lines of bill ask of the product with this barcode.
QtyOnBill(bill, barcode) ==
    IF bill = <<>> THEN 0
    ELSE (IF Head(bill).barcode = barcode THEN Head(bill).quantity ELSE 0)
         + QtyOnBill(Tail(bill), barcode)

IsPrefix(s, t) == Len(s) <= Len(t) /\ SubSeq(t, 1, Len(s)) = s

Normal(code) == Lower(Strip(code))

\* Some line of the bill asks for more than the committed stock of its product.
ExceedsStock(bill) ==
    \E k \in 1..Len(bill) : bill[k].quantity > Available(inventory, bill[k].barcode)

\* C1: in a single session, after any sequence of handlers, every product's
\* stored on-hand quantity is >= 0.
C1_QuantityNeverNegative ==
    \A i \in 1..Len(inventory) : inventory[i].quantity >= 0

\* A checkout was refused on a bill whose line "+" had raised above the stock.
C1_Witness ==
    /\ last.op = "checkout" /\ last.res = "stock error"
    /\ ExceedsStock(current_bill[1])
    /\ \E i \in 1..Len(inventory) : inventory[i].quantity = 1

\* C2: a checkout of a non-empty bill ends in exactly one of two ways, seen in
\* the committed tables: every line's quantity deducted, one history row per
\* line and one sales row appended; or nothing changed at all. While it runs,
\* the committed tables are those it began with.
C2_Succeeded(a) ==
    LET bill == current_bill[a]
        b4 == before[a]
        h0 == Len(b4.stock_history)
    IN  /\ Len(inventory') = Len(b4.inventory)
        /\ \A i \in 1..Len(inventory') :
              inventory'[i] = [b4.inventory[i] EXCEPT
                                 !.quantity = @ - QtyOnBill(bill, b4.inventory[i].barcode)]
        /\ Len(stock_history') = h0 + Len(bill)
        /\ SubSeq(stock_history', 1, h0) = b4.stock_history
        /\ \A k \in 1..Len(bill) :
              stock_history'[h0 + k].item_id
                  = SelectByBarcode(b4.inventory, bill[k].barcode).id
        /\ Len(sales') = Len(b4.sales) + 1
        /\ SubSeq(sales', 1, Len(b4.sales)) = b4.sales

C2_NothingChanged(a) ==
    /\ inventory' = before[a].inventory
    /\ stock_history' = before[a].stock_history
    /\ sales' = before[a].sales

C2_Step(a) ==
    /\ (pc[a] \in InCheckout /\ pc'[a] \in InCheckout) => C2_NothingChanged(a)
    /\ (pc[a] \in InCheckout /\ pc'[a] \notin InCheckout) =>
          \/ pc'[a] = "post" /\ C2_Succeeded(a) /\ ~C2_NothingChanged(a)
          \/ pc'[a] # "post" /\ C2_NothingChanged(a) /\ ~C2_Succeeded(a)

C2_CheckoutAllOrNothing == [][C2_Step(1)]_vars

\* A checkout of a two-line bill has just committed.
C2_Witness == pc[1] = "post" /\ Len(current_bill[1]) = 2 /\ Len(sales) = 1

\* C3: checkout checks every line against the committed stock before it writes
\* anything: a line asking for more than the stock ends the checkout, with the
\* tables and the bill as they were, and no checkout is past the verify loop
\* with such a line on its bill.
C3_Step(a) ==
    /\ (pc[a] = "validate"
          /\ current_bill[a][ci[a]].quantity
                > Available(inventory, current_bill[a][ci[a]].barcode)) =>
          /\ pc'[a] \in {"idle", "off"}
          /\ pc'[a] = "idle" => current_bill'[a] = current_bill[a]
          /\ UNCHANGED <<inventory, stock_history, sales, users>>
          /\ ~tx'[a].open
    /\ (pc[a] = "validate" /\ last'.op = "checkout" /\ last'.res = "stock error") =>
          /\ current_bill'[a] = current_bill[a]
          /\ UNCHANGED <<inventory, stock_history, sales, users>>
          /\ ~tx'[a].open
    /\ pc'[a] = "validate" => ~tx'[a].open
    /\ pc'[a] \in InTransaction =>
          \A k \in 1..Len(current_bill'[a]) :
              current_bill'[a][k].quantity
                  <= Available(before'[a].inventory, current_bill'[a][k].barcode)

C3_ValidateBeforeWrite == [][C3_Step(1)]_vars

\* A checkout of a bill with 2 x MILK500 was refused while one is in stock.
C3_Witness ==
    /\ last.op = "checkout" /\ last.res = "stock error"
    /\ last.arg = [name |-> "Milk 500ml"]
    /\ pc[1] = "idle"
    /\ QtyOnBill(current_bill[1], MILK500) = 2
    /\ Available(inventory, MILK500) = 1
    /\ inventory = LeftBehind.inventory
    /\ stock_history = LeftBehind.stock_history
    /\ sales = LeftBehind.sales

\* C4: with two instances checking out the same product, no interleaving lets
\* both pass the verify loop on the same stock and both deduct: no quantity,
\* committed or inside a transaction, is negative.
C4_NeverNegativeConcurrent ==
    /\ \A i \in 1..Len(inventory) : inventory[i].quantity >= 0
    /\ \A a \in Apps : tx[a].open =>
          \A i \in 1..Len(tx[a].inventory) : tx[a].inventory[i].quantity >= 0

\* C5: when a statement of the checkout fails, or the process stops, after the
\* verify loop and before the commit has completed, the committed tables are
\* those the checkout began with.
C5_Step(a) ==
    (pc[a] \in InTransaction /\ pc'[a] \in {"idle", "off"}) =>
        /\ inventory' = before[a].inventory
        /\ stock_history' = before[a].stock_history
        /\ sales' = before[a].sales
        /\ ~tx'[a].open

C5_FailureLeavesNothing == [][C5_Step(1)]_vars

\* The commit itself failed, after every deduction and the sales insert.
C5_Witness ==
    /\ last.op = "checkout" /\ last.res = "failed" /\ last.arg = <<"commit">>
    /\ pc[1] = "idle" /\ current_bill[1] # <<>> /\ ~tx[1].open


\* The stock_history rows of one item, in id order.
HistoryOf(item_id) ==
    LET OfItem(e) == e.item_id = item_id IN SelectSeq(stock_history, OfItem)

\* The sales rows that hold a line of this barcode, in id order.
SalesOf(barcode) ==
    LET HasLine(r) == QtyOnBill(r.items, barcode) > 0 IN SelectSeq(sales, HasLine)

\* C6: for every product the quantities of its history rows, in id order, never
\* increase, and each row a checkout wrote is the row before it minus what that
\* checkout sold (so successive checkouts give strictly decreasing quantities).
C6_HistoryChains ==
    \A i \in 1..Len(inventory) :
        LET E == HistoryOf(inventory[i].id)
            S == SalesOf(inventory[i].barcode)
        IN  /\ Len(E) = Len(S) + 1
            /\ \A k \in 1..Len(S) :
                  /\ E[k + 1].quantity
                        = E[k].quantity - QtyOnBill(S[k].items, inventory[i].barcode)
                  /\ E[k + 1].quantity < E[k].quantity

\* MILK500 has its seed row and the rows of two checkouts, the second one made
\* in this session.
C6_Witness ==
    /\ sold[1] = 1
    /\ inventory # <<>>
    /\ Len(HistoryOf(SelectByBarcode(inventory, MILK500).id)) = 3

\* C7: stock_history and sales are append-only: every step keeps each committed
\* row, with its content and position.
C7_AppendOnly ==
    [][IsPrefix(stock_history, stock_history') /\ IsPrefix(sales, sales')]_vars

\* The program was started again on a store that holds a sale of this session.
C7_Witness ==
    /\ last.op = "start" /\ pc[1] = "login" /\ sold[1] = 1
    /\ Len(stock_history) > Len(LeftBehind.stock_history)

\* C8: Save in the edit window of a bill line, with entry text n: refused as
\* invalid if n is no integer >= 1, refused if n exceeds the committed stock of
\* the product at that moment (whatever the instance's cache holds); a refusal
\* changes neither the bill nor the tables; otherwise that line's quantity
\* becomes n and nothing else changes.
C8_Step(a) ==
    (last'.op = "save" /\ last'.app = a /\ dialog[a].open /\ dialog[a].attached) =>
        LET r == ParseInt(last'.arg)
            k == LineOf(current_bill[a], dialog[a].barcode)
            live == Available(inventory, dialog[a].barcode)
        IN  /\ UNCHANGED <<inventory, stock_history, sales, users, cache, tx>>
            /\ \A b \in Apps \ {a} : current_bill'[b] = current_bill[b]
            /\ k # 0
            /\ IF ~r.ok \/ r.val < 1
               THEN /\ last'.res = "invalid"
                    /\ current_bill'[a] = current_bill[a]
               ELSE IF r.val > live
                    THEN /\ last'.res = "not enough stock"
                         /\ current_bill'[a] = current_bill[a]
                    ELSE /\ last'.res = "ok"
                         /\ current_bill'[a]
                               = [current_bill[a] EXCEPT ![k].quantity = r.val]

C8_SetQuantity == [][\A a \in Apps : C8_Step(a)]_vars

\* A Save of 19 was refused against a committed stock of 1 while the instance's
\* cache still shows 20.
C8_Witness ==
    /\ last.op = "save" /\ last.res = "not enough stock"
    /\ dialog[last.app].open /\ dialog[last.app].attached
    /\ ParseInt(last.arg).val = 19
    /\ Available(cache[last.app], dialog[last.app].barcode) = 20
    /\ Available(inventory, dialog[last.app].barcode) = 1

\* C9: adding a known product that is in stock: a bill that has a line of it
\* gets that line's quantity raised by one and no new line; otherwise one line
\* with quantity 1 and the product's price is appended at the end.
C9_Step(a) ==
    (last'.op = "add" /\ last'.app = a) =>
        LET known == {i \in 1..Len(inventory) :
                         Normal(inventory[i].barcode) = Normal(last'.arg)}
        IN  (known # {} /\ \A i \in known : inventory[i].quantity > 0) =>
                LET p == inventory[CHOOSE i \in known : TRUE]
                    k == LineOf(current_bill[a], p.barcode)
                IN  /\ last'.res = "ok"
                    /\ IF k # 0
                       THEN current_bill'[a]
                               = [current_bill[a] EXCEPT ![k].quantity = @ + 1]
                       ELSE current_bill'[a]
                               = Append(current_bill[a],
                                        [barcode |-> p.barcode, name |-> p.name,
                                         price |-> p.price, quantity |-> 1])

C9_AddMergesOrAppends == [][C9_Step(1)]_vars

\* MILK500 scanned twice on an empty bill: one line, quantity 2, subtotal
\* 2 x 30.
C9_Witness ==
    /\ last.op = "add" /\ last.res = "ok"
    /\ Len(current_bill[1]) = 1
    /\ current_bill[1][1].barcode = MILK500
    /\ current_bill[1][1].quantity = 2
    /\ Subtotal(current_bill[1]) = 2 * Defaults[1].price

\* C10: adding fails with "not found" when no product of the catalog snapshot
\* has the code and with "out of stock" when the product's quantity in the
\* snapshot is <= 0; a failed add changes neither the bill nor the tables.
C10_Step(a) ==
    (last'.op = "add" /\ last'.app = a) =>
        LET known == {i \in 1..Len(cache[a]) :
                         Normal(cache[a][i].barcode) = Normal(last'.arg)}
        IN  /\ known = {} => last'.res = "not found"
            /\ (known # {} /\ \A i \in known : cache[a][i].quantity <= 0)
                  => last'.res = "out of stock"
            /\ last'.res \in {"not found", "out of stock"} =>
                  /\ known = {} \/ \A i \in known : cache[a][i].quantity <= 0
                  /\ UNCHANGED <<current_bill, inventory, stock_history, sales,
                                 users, cache, tx>>

C10_AddFailures == [][C10_Step(1)]_vars

\* BREAD01, sold out, was scanned and refused; the bill holds what it held.
C10_Witness ==
    /\ last.op = "add" /\ last.res = "out of stock" /\ last.arg = BREAD01
    /\ Available(cache[1], BREAD01) = 0
    /\ current_bill[1] # <<>>


\* C11: a bill line's unit price is the price the instance's catalog showed
\* when the line was appended, and no step changes it while the line is on the
\* bill: not an edit of the product's price in the store, not a reload of the
\* catalog, not a merging add, not a Save of a quantity. The total of the
\* sales row is the sum of these prices times the quantities, whatever the
\* store's prices are when the sale is inserted and committed.
C11_Step(a) ==
    /\ \A k \in 1..Len(current_bill[a]) :
          LET j == LineOf(current_bill'[a], current_bill[a][k].barcode)
          IN  j # 0 => current_bill'[a][j].price = current_bill[a][k].price
    /\ (last'.op = "add" /\ last'.app = a
          /\ Len(current_bill'[a]) = Len(current_bill[a]) + 1) =>
          current_bill'[a][Len(current_bill'[a])].price
              = cache[a][FindItem(cache[a], last'.arg)].price
    /\ (pc[a] = "ledger" /\ pc'[a] = "commit") =>
          LET row == tx'[a].sales[Len(tx'[a].sales)]
          IN  /\ row.total = Subtotal(current_bill[a])
              /\ \A k \in 1..Len(current_bill[a]) :
                    row.items[k].price = current_bill[a][k].price
    /\ (pc[a] = "commit" /\ pc'[a] = "post") =>
          sales'[Len(sales')].total = Subtotal(current_bill[a])

C11_PricePinned == [][C11_Step(1)]_vars

\* MILK500 was added at 30, its price was then edited to 35 and the catalog
\* reloaded, a second add merged into the line, and the sale was committed
\* with total 2 x 30.
C11_Witness ==
    /\ pc[1] = "post"
    /\ Len(current_bill[1]) = 1
    /\ current_bill[1][1].price = 30
    /\ current_bill[1][1].quantity = 2
    /\ SelectByBarcode(inventory, MILK500).price = 35
    /\ SelectByBarcode(cache[1], MILK500).price = 35
    /\ sales[Len(sales)].total = 60


\* C12: the alerts a successful checkout reports are exactly the products of the
\* sold bill whose stored quantity, after the deduction, is below 10, each once
\* and with that quantity: none of them is missing, and no product that was not
\* sold or that has 10 or more left is reported.
C12_Step(a) ==
    (last'.op = "checkout" /\ last'.res = "done" /\ last'.app = a) =>
        LET alerts == last'.arg
            bill == current_bill[a]
        IN  /\ sales[Len(sales)].items = bill
            /\ {alerts[i].barcode : i \in 1..Len(alerts)}
                  = {b \in BarcodesOf(bill) : Available(inventory', b) < 10}
            /\ \A i, j \in 1..Len(alerts) :
                  alerts[i].barcode = alerts[j].barcode => i = j
            /\ \A i \in 1..Len(alerts) :
                  alerts[i].quantity = Available(inventory', alerts[i].barcode)

C12_AlertSetExact == [][C12_Step(1)]_vars

\* 10 x MILK500 and 19 x BREAD01 were sold from 20 each: BREAD01 (1 left) is
\* reported, MILK500 (exactly 10 left) is not.
C12_Witness ==
    /\ last.op = "checkout" /\ last.res = "done"
    /\ Available(inventory, MILK500) = 10
    /\ Available(inventory, BREAD01) = 1
    /\ Len(last.arg) = 1
    /\ last.arg[1].barcode = BREAD01


\* Rows in ascending order of name.
SortedByName(rows) ==
    \A i, j \in 1..Len(rows) :
        i < j => NameRank(rows[i].name) <= NameRank(rows[j].name)

\* C13: the low-stock list is ordered by product name, on the dashboard (over
\* the whole catalog) and in the alerts a checkout reports (over the lines just
\* sold), whatever the order of the lines on the bill.
C13_AlertsSortedByName ==
    /\ \A a \in Apps : SortedByName(populate_low_stock_warning(cache[a]))
    /\ (last.op = "checkout" /\ last.res = "done") => SortedByName(last.arg)


\* C14: the receipt is rendered and the low-stock mails are sent only in the
\* part of the checkout that follows the commit: the transaction is closed and
\* the sale is in the committed tables. One mail is attempted per alerted
\* product, in order, whether or not earlier ones failed. Whatever the outcome
\* of the rendering and of the mails, the committed tables stay as they are,
\* the bill is cleared and the handler returns.
C14_Step(a) ==
    ("receipt" \in DOMAIN last' /\ last'.app = a) =>
        /\ pc[a] = "post"
        /\ ~tx[a].open
        /\ sales # <<>>
        /\ sales[Len(sales)].items = current_bill[a]
        /\ UNCHANGED <<inventory, stock_history, sales, users>>
        /\ Len(last'.mails) = Len(last'.arg)
        /\ \A i \in 1..Len(last'.arg) : last'.mails[i].barcode = last'.arg[i].barcode
        /\ current_bill'[a] = <<>>
        /\ pc'[a] = "idle"

C14_AfterCommitNonFatal == [][C14_Step(1)]_vars

\* The receipt could not be written and the first of two mails failed: the
\* second mail was still attempted, the sale stands and the bill is empty.
C14_Witness ==
    /\ last.op = "checkout" /\ last.res = "done"
    /\ last.receipt = "failed"
    /\ Len(last.arg) = 2 /\ Len(last.mails) = 2
    /\ ~last.mails[1].success /\ last.mails[2].success
    /\ Len(sales) = 1 /\ Len(sales[1].items) = 2
    /\ current_bill[1] = <<>> /\ pc[1] = "idle"


\* C15: the sales row a successful checkout appends holds the lines of the bill
\* as they are at the commit (barcode, name, price, quantity, in bill order)
\* and, as total, subtotal + tax of that bill with tax = subtotal x 0: the total
\* the bill's display shows.
C15_Step(a) ==
    (pc[a] = "commit" /\ pc'[a] = "post") =>
        LET row == sales'[Len(sales')]
            shown == update_bill_display(current_bill[a])
        IN  /\ Len(sales') = Len(sales) + 1
            /\ row.items = current_bill[a]
            /\ row.total = shown.total
            /\ shown.tax = 0
            /\ shown.total = shown.subtotal

C15_SaleRecordSnapshot == [][C15_Step(1)]_vars

\* 2 x MILK500 at 30 and 1 x BREAD01 at 40 were sold: total 100.
C15_Witness ==
    /\ pc[1] = "post"
    /\ Len(current_bill[1]) = 2
    /\ current_bill[1][1].barcode = MILK500 /\ current_bill[1][1].quantity = 2
    /\ current_bill[1][2].barcode = BREAD01 /\ current_bill[1][2].quantity = 1
    /\ sales[Len(sales)].items = current_bill[1]
    /\ sales[Len(sales)].total = 100


\* C16: the bill is empty when a checkout that committed returns, after a
\* confirmed clear and after a logout (and in a process that has just started);
\* a checkout that failed leaves the bill as it was. Between the commit and the
\* return of the handler nothing else runs, so the lines of a committed sale are
\* never on the bill when a checkout begins.
C16_Step(a) ==
    /\ (pc[a] = "post" /\ pc'[a] # "post") => current_bill'[a] = <<>>
    /\ (last'.app = a /\ last'.op = "clear" /\ current_bill[a] # <<>>) =>
          current_bill'[a] = <<>>
    /\ (last'.app = a /\ last'.op \in {"logout", "start", "exit"}) =>
          current_bill'[a] = <<>>
    /\ (pc[a] \in InCheckout /\ pc'[a] = "idle") =>
          /\ current_bill'[a] = current_bill[a]
          /\ current_bill[a] # <<>>
          /\ sales' = sales

C16_BillEmptied == [][C16_Step(1)]_vars

\* A checkout has returned after the file dialog was cancelled: the sale is
\* committed and the bill is empty.
C16_Witness ==
    /\ last.op = "checkout" /\ last.res = "done" /\ last.receipt = "cancelled"
    /\ pc[1] = "idle"
    /\ current_bill[1] = <<>>
    /\ sales # <<>> /\ sold[1] = 1


\* C17: a checkout that fails on the stock reports an offending line (one asking
\* for more than the committed stock) with its scan code, the quantity
\* requested and the quantity available.
C17_Step(a) ==
    (last'.app = a /\ last'.op = "checkout" /\ last'.res = "stock error") =>
        /\ {"barcode", "requested", "available"} \subseteq DOMAIN last'.arg
        /\ \E k \in 1..Len(current_bill[a]) :
              /\ current_bill[a][k].barcode = last'.arg.barcode
              /\ current_bill[a][k].quantity = last'.arg.requested
              /\ Available(inventory, last'.arg.barcode) = last'.arg.available
              /\ last'.arg.requested > last'.arg.available

C17_FailureReportsLine == [][C17_Step(1)]_vars


\* Text that is empty or holds nothing but spaces.
Blank(text) == \A i \in 1..Len(text) : text[i] = " "

\* C18, as stated: the customer of the sales row is the text supplied when it
\* is not blank, and the walk-in value when it is empty or only whitespace; it
\* is never blank.
C18_StoredAsSupplied_Step(a) ==
    (pc[a] = "ledger" /\ pc'[a] = "commit") =>
        LET row == tx'[a].sales[Len(tx'[a].sales)]
        IN  /\ row.customer = (IF Blank(last'.arg) THEN WalkIn ELSE last'.arg)
            /\ ~Blank(row.customer)

C18_StoredAsSupplied == [][C18_StoredAsSupplied_Step(1)]_vars

\* C18, amended: the customer of the sales row is the text supplied with its
\* leading and trailing whitespace removed when that leaves something, and the
\* walk-in value when the text is empty or only whitespace; it is never blank,
\* and the commit stores it as inserted.
C18_Step(a) ==
    /\ (pc[a] = "ledger" /\ pc'[a] = "commit") =>
          LET row == tx'[a].sales[Len(tx'[a].sales)]
              text == last'.arg
          IN  /\ Blank(text) => row.customer = WalkIn
              /\ ~Blank(text) =>
                    \E i, j \in 1..Len(text) :
                        /\ i <= j
                        /\ text[i] # " " /\ text[j] # " "
                        /\ Blank(SubSeq(text, 1, i - 1))
                        /\ Blank(SubSeq(text, j + 1, Len(text)))
                        /\ row.customer = SubSeq(text, i, j)
              /\ ~Blank(row.customer)
    /\ (pc[a] = "commit" /\ pc'[a] = "post") =>
          sales'[Len(sales')].customer = tx[a].sales[Len(tx[a].sales)].customer

C18_CustomerLabel == [][C18_Step(1)]_vars

\* The text " A " was supplied and the row inserted holds "A".
C18_Witness ==
    /\ pc[1] = "commit"
    /\ last.arg = <<" ", "A", " ">>
    /\ tx[1].sales[Len(tx[1].sales)].customer = <<"A">>


\* C20: in every reachable state the bill has at most one line per scan code
\* (codes compared without regard to letter case and surrounding spaces) and
\* every line's quantity is at least 1.
C20_OneLinePerCode ==
    \A a \in Apps :
        /\ \A i, j \in 1..Len(current_bill[a]) :
              Normal(current_bill[a][i].barcode) = Normal(current_bill[a][j].barcode)
                  => i = j
        /\ \A i \in 1..Len(current_bill[a]) : current_bill[a][i].quantity >= 1

\* " milk500 " was scanned on a bill that held MILK500 and BREAD01: it went
\* into the MILK500 line.
C20_Witness ==
    /\ last.op = "add" /\ last.res = "ok"
    /\ last.arg = <<" ", "m", "i", "l", "k", "5", "0", "0", " ">>
    /\ Len(current_bill[1]) = 2
    /\ current_bill[1][1].barcode = MILK500 /\ current_bill[1][1].quantity = 2
    /\ current_bill[1][2].barcode = BREAD01

\* The rows of a history table that belong to one item, in id order.
EntriesOf(hist, item_id) ==
    LET OfItem(e) == e.item_id = item_id IN SelectSeq(hist, OfItem)

C21_Step ==
    last'.op = "start" =>
        IF inventory # <<>>
        THEN /\ inventory' = inventory
             /\ stock_history' = stock_history
             /\ sales' = sales
             /\ users' = users
        ELSE /\ Len(inventory') = Len(Defaults)
             /\ Len(stock_history') = Len(stock_history) + Len(Defaults)
             /\ \A k \in 1..Len(Defaults) :
                   LET Is(r) == r.barcode = Defaults[k].barcode
                       rows == SelectSeq(inventory', Is)
                   IN  /\ Len(rows) = 1
                       /\ rows[1].quantity = Defaults[k].quantity
                       /\ rows[1].name = Defaults[k].name
                       /\ rows[1].price = Defaults[k].price
                       /\ Len(EntriesOf(stock_history', rows[1].id)) = 1
                       /\ EntriesOf(stock_history', rows[1].id)[1].quantity
                             = Defaults[k].quantity

\* C21: store initialization is idempotent: a start on a store that already
\* holds products (whatever checkouts have done to it since, and however often
\* the program is started) inserts no product, resets no quantity and appends
\* no history row; a start on an empty store inserts each default product once,
\* with exactly one history row holding its seeded quantity.
C21_InitIdempotent == [][C21_Step]_vars

\* The program was started again on a store whose MILK500 stock a checkout of
\* this session has reduced below the seeded quantity.
C21_Witness ==
    /\ last.op = "start" /\ pc[1] = "login" /\ sold[1] = 1
    /\ Len(inventory) = Len(Defaults)
    /\ SelectByBarcode(inventory, MILK500).quantity
          < SelectByBarcode(init_db(EmptyStore).inventory, MILK500).quantity
    /\ Len(sales) > 0

RECURSIVE SoldTotal(_, _)
\* The sum of the line quantities of one product over the rows of a sales table.
SoldTotal(sl, barcode) ==
    IF sl = <<>> THEN 0
    ELSE QtyOnBill(Head(sl).items, barcode) + SoldTotal(Tail(sl), barcode)

\* C22: stock conservation: in every committed state, for every product, the
\* seeded quantity equals the stored quantity plus the sum of that product's
\* line quantities over all rows of sales (no sale without its deduction, no
\* deduction without its sale).
C22_StockConserved ==
    \A i \in 1..Len(inventory) :
        Defaults[CHOOSE k \in 1..Len(Defaults) :
                    Defaults[k].barcode = inventory[i].barcode].quantity
            = inventory[i].quantity + SoldTotal(sales, inventory[i].barcode)

\* A checkout of this session sold both products in one bill and is committed.
C22_Witness ==
    /\ sold[1] = 1 /\ ~tx[1].open
    /\ Len(sales) > 0
    /\ Len(sales[Len(sales)].items) = 2
    /\ \A i \in 1..Len(inventory) :
          SoldTotal(sales, inventory[i].barcode) > 0

\* The stock_history row of one item with the highest id.
LatestEntry(item_id) ==
    CHOOSE e \in {stock_history[k] : k \in 1..Len(stock_history)} :
        /\ e.item_id = item_id
        /\ \A k \in 1..Len(stock_history) :
              stock_history[k].item_id = item_id => stock_history[k].id <= e.id

\* C23: in every committed state, every product has a history row, and the
\* quantity of its row with the highest id is the product's stored quantity.
C23_LatestEntryIsOnHand ==
    \A i \in 1..Len(inventory) :
        /\ \E k \in 1..Len(stock_history) :
              stock_history[k].item_id = inventory[i].id
        /\ LatestEntry(inventory[i].id).quantity = inventory[i].quantity

\* On a freshly seeded store one committed checkout sold both products: each
\* has its seed row and a later row written by that checkout.
C23_Witness ==
    /\ sold[1] = 1 /\ pc[1] = "idle" /\ ~tx[1].open
    /\ Len(sales) = 1
    /\ Len(stock_history) = Len(Defaults) + 2
    /\ \A i \in 1..Len(inventory) :
          /\ Len(HistoryOf(inventory[i].id)) = 2
          /\ inventory[i].quantity < HistoryOf(inventory[i].id)[1].quantity

\* C24: in a single session, whenever the instance is idle its cache holds the
\* rows of the store with the same quantity for every product, so the
\* out-of-stock check of add_item_by_barcode on the cached row agrees with the
\* stored quantity, for every code that can be scanned.
C24_CacheAgreesWhenIdle ==
    pc[1] = "idle" =>
        /\ Len(cache[1]) = Len(inventory)
        /\ \A i \in 1..Len(inventory) :
              \E k \in 1..Len(cache[1]) :
                 /\ cache[1][k].barcode = inventory[i].barcode
                 /\ cache[1][k].quantity = inventory[i].quantity
        /\ \A code \in ScanInputs :
              LET k == FindItem(cache[1], code)
              IN  k # 0 => (OutOfStock(cache[1][k])
                              <=> Available(inventory, cache[1][k].barcode) <= 0)

\* The instance is idle after a checkout of this session that sold the last
\* MILK500: the reloaded cache shows it out of stock.
C24_Witness ==
    /\ pc[1] = "idle" /\ sold[1] = 1
    /\ last.op = "checkout" /\ last.res = "done"
    /\ Available(inventory, MILK500) = 0
    /\ FindItem(cache[1], MILK500) # 0
    /\ OutOfStock(cache[1][FindItem(cache[1], MILK500)])

C25_Step(a) ==
    (last'.app = a /\ last'.op = "checkout" /\ pc[a] = "idle"
        /\ current_bill[a] = <<>>) =>
        /\ last' = Report(a, "checkout", "empty", NoArg)
        /\ inventory' = inventory
        /\ stock_history' = stock_history
        /\ sales' = sales
        /\ tx' = tx
        /\ pc' = pc
        /\ cache' = cache
        /\ dialog' = dialog
        /\ current_bill'[a] = <<>>

\* C25: process_checkout on an empty bill is a no-op: it only reports that the
\* bill is empty; it writes no history row and no sales row, changes no
\* quantity, opens no transaction, produces no receipt and no alert mail, and
\* leaves the bill empty and the instance idle.
C25_EmptyCheckoutNoOp == [][C25_Step(1)]_vars

\* Checkout was pressed on an empty bill, on a store that holds products.
C25_Witness ==
    /\ last.op = "checkout" /\ last.res = "empty"
    /\ current_bill[1] = <<>> /\ pc[1] = "idle"
    /\ Len(inventory) = Len(Defaults)

C26_Step(a) ==
    (last'.app = a /\ last'.op = "save") =>
        /\ dialog[a].open
        /\ inventory' = inventory
        /\ stock_history' = stock_history
        /\ sales' = sales
        /\ tx' = tx
        /\ ~dialog[a].attached => current_bill' = current_bill
        /\ dialog[a].attached =>
              /\ Len(current_bill'[a]) = Len(current_bill[a])
              /\ \A k \in 1..Len(current_bill[a]) :
                    current_bill[a][k].barcode # dialog[a].barcode
                        => current_bill'[a][k] = current_bill[a][k]

\* C26: Save acts on the line the edit window was opened on, not on an index:
\* once that line has left the bill (removed, bill cleared or checked out) a
\* later Save changes no line of the bill, also when the same product is on the
\* bill again or another line has taken its place, and writes nothing to the
\* store; while the line is on the bill Save changes no other line. Logout
\* closes the window, so no Save follows it.
C26_EditBoundToLine ==
    [][C26_Step(1) /\ (last'.op = "logout" => ~dialog'[1].open)]_vars

\* Save was accepted in a window whose line had left the bill, while the bill
\* again holds a line of the same product; that line has another quantity.
C26_Witness ==
    /\ last.op = "save" /\ last.res = "ok"
    /\ ~last.line.attached
    /\ LineOf(current_bill[1], last.line.barcode) # 0
    /\ current_bill[1][LineOf(current_bill[1], last.line.barcode)].quantity
          # ParseInt(last.arg).val

====
